---- MODULE Spec2Model ----
(***************************************************************************)
(* Dairy Expense Tracker (src/src/App.jsx): the rate timeline, the entry   *)
(* ledger, the aggregations computed from them and their mirroring into    *)
(* localStorage.                                                           *)
(*                                                                         *)
(* Strings are sequences of one-character strings, compared by code unit   *)
(* as JavaScript compares them.  JavaScript numbers are tagged records     *)
(* [k, v]: a finite number (k = "num"), NaN, Infinity or null.  Finite     *)
(* numbers are integers here: the rounding of IEEE doubles is not          *)
(* modelled.                                                               *)
(*                                                                         *)
(* activeDate and matrix are the argument and the result of the latest     *)
(* call of daysMatrix (SpecCalendar); the specifications of the ledger     *)
(* (Spec, SpecStored) make no call and leave them alone.                   *)
(***************************************************************************)
EXTENDS Integers, Sequences, FiniteSets, TLC

VARIABLES entries, rates, store, today, activeDate, matrix

vars == <<entries, rates, store, today, activeDate, matrix>>

(***************************************************************************)
(* Bounds of the model.                                                    *)
(***************************************************************************)
\* the most records the rate list and the entry list hold together
MaxRecords == 3
\* the years, from 2000 on, whose months daysMatrix is called with: 28 years hold
\* every weekday of the 1st with every month length
CalendarYears == 28

(***************************************************************************)
(* JavaScript strings.                                                     *)
(***************************************************************************)
Digits == <<"0", "1", "2", "3", "4", "5", "6", "7", "8", "9">>

DigitSet == {Digits[i] : i \in 1..Len(Digits)}

IsDigit(c) == c \in DigitSet

\* the value of each digit
DigitVals == [c \in DigitSet |-> (CHOOSE i \in 1..Len(Digits) : Digits[i] = c) - 1]

DigitVal(c) == DigitVals[c]

\* the code unit of a character of a date key: "-" is U+002D, the digits are
\* U+0030..U+0039 in numeric order
Code(c) == IF c = "-" THEN 45 ELSE 48 + DigitVal(c)

\* a < b on strings: the first differing code unit decides, a proper prefix is smaller
RECURSIVE StrLess(_, _)
StrLess(a, b) ==
  IF b = <<>> THEN FALSE
  ELSE IF a = <<>> THEN TRUE
  ELSE IF Head(a) # Head(b) THEN Code(Head(a)) < Code(Head(b))
  ELSE StrLess(Tail(a), Tail(b))

\* a <= b on strings
StrLeq(a, b) == a = b \/ StrLess(a, b)

\* a.localeCompare(b): negative, zero or positive
localeCompare(a, b) == IF a = b THEN 0 ELSE IF StrLess(a, b) THEN -1 ELSE 1

\* String(n) for a natural number n
RECURSIVE String(_)
String(n) == IF n < 10 THEN <<Digits[n + 1]>> ELSE String(n \div 10) \o <<Digits[(n % 10) + 1]>>

\* s.padStart(len, "0")
RECURSIVE padStart(_, _)
padStart(s, len) == IF Len(s) >= len THEN s ELSE padStart(<<"0">> \o s, len)

pad(n) == padStart(String(n), 2)

AllDigits(s) == \A i \in 1..Len(s) : IsDigit(s[i])

\* the value of a string of digits; 0 for the empty string
RECURSIVE NumberOfDigits(_)
NumberOfDigits(s) ==
  IF s = <<>> THEN 0
  ELSE 10 * NumberOfDigits(SubSeq(s, 1, Len(s) - 1)) + DigitVal(s[Len(s)])

\* key.split("-")
RECURSIVE split(_)
split(key) ==
  IF \A i \in 1..Len(key) : key[i] # "-" THEN <<key>>
  ELSE LET i == CHOOSE j \in 1..Len(key) :
                  key[j] = "-" /\ \A k \in 1..(j - 1) : key[k] # "-"
       IN <<SubSeq(key, 1, i - 1)>> \o split(SubSeq(key, i + 1, Len(key)))

(***************************************************************************)
(* Dates: a Date is the calendar day [y, m, d] (m is 1..12 here, the       *)
(* month number getMonth() + 1).  InvalidDate is the Date whose time       *)
(* value is NaN: every comparison with it is false.                        *)
(***************************************************************************)
Day(y, m, d) == [y |-> y, m |-> m, d |-> d]

InvalidDate == Day(0, 0, 0)

toKey(d) == String(d.y) \o <<"-">> \o pad(d.m) \o <<"-">> \o pad(d.d)

parseKey(key) ==
  LET p == split(key)
  IN IF Len(p) = 3 /\ p[1] # <<>> /\ p[2] # <<>> /\ p[3] # <<>>
        /\ AllDigits(p[1]) /\ AllDigits(p[2]) /\ AllDigits(p[3])
     THEN Day(NumberOfDigits(p[1]), NumberOfDigits(p[2]), NumberOfDigits(p[3]))
     ELSE InvalidDate

\* a <= b on Dates (false when either is invalid)
DateLeq(a, b) ==
  /\ a # InvalidDate /\ b # InvalidDate
  /\ \/ a.y < b.y
     \/ a.y = b.y /\ a.m < b.m
     \/ a.y = b.y /\ a.m = b.m /\ a.d <= b.d

\* the days in month m of year y
DaysIn(y, m) ==
  IF m \in {4, 6, 9, 11} THEN 30
  ELSE IF m # 2 THEN 31
  ELSE IF (y % 4 = 0 /\ y % 100 # 0) \/ y % 400 = 0 THEN 29 ELSE 28

startOfMonth(date) == Day(date.y, date.m, 1)

endOfMonth(date) == Day(date.y, date.m, DaysIn(date.y, date.m))

\* the day number of 1 January of year y, counted from 1 January 1970
DayFromYear(y) ==
  365 * (y - 1970) + ((y - 1969) \div 4) - ((y - 1901) \div 100) + ((y - 1601) \div 400)

\* the days of year y before its month m
RECURSIVE DaysBeforeMonth(_, _)
DaysBeforeMonth(y, m) == IF m = 1 THEN 0 ELSE DaysBeforeMonth(y, m - 1) + DaysIn(y, m - 1)

\* the day number of the day d of month m of year y; d may lie outside the month
MakeDay(y, m, d) == DayFromYear(y) + DaysBeforeMonth(y, m) + d - 1

\* the years a Date of the model can fall in
DateYears == 1999..(2000 + CalendarYears)

\* the Date of day number n
DateFromDayNumber(n) ==
  LET y == CHOOSE x \in DateYears : DayFromYear(x) <= n /\ n < DayFromYear(x + 1)
      m == CHOOSE x \in 1..12 : MakeDay(y, x, 1) <= n /\ n < MakeDay(y, x, 1) + DaysIn(y, x)
  IN Day(y, m, n - MakeDay(y, m, 1) + 1)

\* date.getDay(): 0 is Sunday; 1 January 1970 was a Thursday
getDay(date) == (MakeDay(date.y, date.m, date.d) + 4) % 7

\* the Date after date.setDate(n): day n of its month, carried into the
\* neighbouring months when n is outside 1..DaysIn
setDate(date, n) == DateFromDayNumber(MakeDay(date.y, date.m, n))

\* n cells from cursor on: each cell is a copy of the cursor, which then steps
\* one day (the two nested loops of daysMatrix share the one cursor)
RECURSIVE matrixCells(_, _)
matrixCells(n, cursor) ==
  IF n = 0 THEN <<>>
  ELSE <<cursor>> \o matrixCells(n - 1, setDate(cursor, cursor.d + 1))

\* daysMatrix with Sunday as the first day of the week
daysMatrixSundayFirst(date) ==
  LET start == startOfMonth(date)
      end == endOfMonth(date)
      startIdx == getDay(start)
      totalDays == startIdx + end.d
      rows == (totalDays + 6) \div 7
      cells == matrixCells(7 * rows, setDate(start, start.d - startIdx))
  IN [r \in 1..rows |-> SubSeq(cells, 7 * (r - 1) + 1, 7 * r)]

\* daysMatrix(date): rows of 7 Dates
daysMatrix(date) ==
  LET start == startOfMonth(date)
      end == endOfMonth(date)
      startIdx == (getDay(start) + 6) % 7
      totalDays == startIdx + end.d
      rows == (totalDays + 6) \div 7
      cells == matrixCells(7 * rows, setDate(start, start.d - startIdx))
  IN [r \in 1..rows |-> SubSeq(cells, 7 * (r - 1) + 1, 7 * r)]

(***************************************************************************)
(* JavaScript numbers and null.                                            *)
(***************************************************************************)
Num(n) == [k |-> "num", v |-> n]

NaN == [k |-> "nan", v |-> 0]

Infinity == [k |-> "inf", v |-> 1]

NegInfinity == [k |-> "inf", v |-> -1]

null == [k |-> "null", v |-> 0]

\* ToNumber on a number or null: null converts to 0
ToNumber(x) == IF x = null THEN Num(0) ELSE x

isNaN(x) == ToNumber(x).k = "nan"

\* x <= 0
LeqZero(x) == LET n == ToNumber(x) IN n.k # "nan" /\ n.v <= 0

\* x > 0
GtZero(x) == LET n == ToNumber(x) IN n.k # "nan" /\ n.v > 0

Sign(n) == IF n.v > 0 THEN 1 ELSE IF n.v < 0 THEN -1 ELSE 0

\* a * b
Mul(a, b) ==
  LET x == ToNumber(a)
      y == ToNumber(b)
  IN IF x.k = "nan" \/ y.k = "nan" THEN NaN
     ELSE IF x.k = "num" /\ y.k = "num" THEN Num(x.v * y.v)
     ELSE IF Sign(x) * Sign(y) = 0 THEN NaN
     ELSE [k |-> "inf", v |-> Sign(x) * Sign(y)]

\* a + b
Add(a, b) ==
  LET x == ToNumber(a)
      y == ToNumber(b)
  IN IF x.k = "nan" \/ y.k = "nan" THEN NaN
     ELSE IF x.k = "num" /\ y.k = "num" THEN Num(x.v + y.v)
     ELSE IF x.k = "inf" /\ y.k = "inf" THEN (IF x.v = y.v THEN x ELSE NaN)
     ELSE IF x.k = "inf" THEN x ELSE y

\* Number(s) for the text of an input field: "" is 0, digits with an optional
\* sign are that integer, <digits>e<digits> is the mantissa scaled by a power of
\* ten (Infinity once the exponent exceeds 308, that of the largest double),
\* anything else is NaN
Number(s) ==
  LET neg == s # <<>> /\ Head(s) = "-"
      body == IF neg THEN Tail(s) ELSE s
      es == {i \in 1..Len(body) : body[i] = "e"}
  IN IF s = <<>> THEN Num(0)
     ELSE IF body # <<>> /\ AllDigits(body)
       THEN Num(IF neg THEN 0 - NumberOfDigits(body) ELSE NumberOfDigits(body))
     ELSE IF Cardinality(es) = 1
       THEN LET i == CHOOSE j \in es : TRUE
                mant == SubSeq(body, 1, i - 1)
                expo == SubSeq(body, i + 1, Len(body))
            IN IF mant = <<>> \/ expo = <<>> \/ ~AllDigits(mant) \/ ~AllDigits(expo) THEN NaN
               ELSE IF NumberOfDigits(mant) = 0 THEN Num(0)
               ELSE IF NumberOfDigits(expo) + Len(mant) - 1 > 308
                 THEN (IF neg THEN NegInfinity ELSE Infinity)
               ELSE Num((IF neg THEN -1 ELSE 1) * NumberOfDigits(mant) * 10 ^ NumberOfDigits(expo))
     ELSE NaN

(***************************************************************************)
(* JSON and localStorage.  A JavaScript value that JSON.parse can return   *)
(* is [kind, items]: an array with its items, or null, a number or an      *)
(* object (items empty).  The text kept under a key is modelled by what    *)
(* it parses to: [kind, items] as well, with the further kinds "absent"    *)
(* (getItem returns null), "empty" (the empty string) and "garbage" (text  *)
(* JSON.parse throws on).                                                  *)
(***************************************************************************)
Array(items) == [kind |-> "array", items |-> items]

IsArray(x) == x.kind = "array"

\* JSON.stringify of a field: a number that is not finite is written as null
stringifyField(f, v) ==
  IF f \in {"cow", "buffalo", "kg"} THEN (IF v.k = "num" THEN v ELSE null) ELSE v

stringifyRecord(r) == [f \in DOMAIN r |-> stringifyField(f, r[f])]

\* JSON.stringify(value)
stringify(value) ==
  [kind |-> value.kind,
   items |-> [i \in 1..Len(value.items) |-> stringifyRecord(value.items[i])]]

ParseThrows(raw) == raw.kind = "garbage"

\* JSON.parse(raw), for a text it does not throw on
parse(raw) == [kind |-> raw.kind, items |-> raw.items]

LS_KEYS == [entries |-> "dairy.entries.v2", rates |-> "dairy.rates.v2"]

\* loadLS(key, fallback) on the store st: the fallback when the key is absent,
\* its text is empty (falsy) or JSON.parse throws; else whatever the text parses to
loadLS(st, key, fallback) ==
  LET raw == st[key]
  IN IF raw.kind \in {"absent", "empty"} THEN fallback
     ELSE IF ParseThrows(raw) THEN fallback
     ELSE parse(raw)

\* the store after saveLS(key, value)
saveLS(st, key, value) == [st EXCEPT ![key] = stringify(value)]

(***************************************************************************)
(* Business logic of the App component.  rs and es are the items of the    *)
(* rates and entries arrays.                                               *)
(***************************************************************************)
\* x put behind the records of the sorted list that do not compare greater
RECURSIVE InsertSorted(_, _)
InsertSorted(sorted, x) ==
  IF sorted = <<>> THEN <<x>>
  ELSE LET last == sorted[Len(sorted)]
       IN IF localeCompare(last.effectiveFrom, x.effectiveFrom) <= 0
          THEN Append(sorted, x)
          ELSE Append(InsertSorted(SubSeq(sorted, 1, Len(sorted) - 1), x), last)

\* [...rates].sort((a, b) => a.effectiveFrom.localeCompare(b.effectiveFrom)),
\* a stable sort
RECURSIVE sortedRates(_)
sortedRates(rs) ==
  IF rs = <<>> THEN <<>>
  ELSE InsertSorted(sortedRates(SubSeq(rs, 1, Len(rs) - 1)), rs[Len(rs)])

HasLatestRate(rs) == rs # <<>>

\* sortedRates[sortedRates.length - 1], where there is one
latestRate(rs) == LET sr == sortedRates(rs) IN sr[Len(sr)]

\* rateScan with an exclusive lower bound (effectiveFrom < dateKey)
RECURSIVE rateScanExclusive(_, _, _, _)
rateScanExclusive(sr, i, dateKey, found) ==
  IF i > Len(sr) THEN found
  ELSE IF StrLess(sr[i].effectiveFrom, dateKey)
    THEN rateScanExclusive(sr, i + 1, dateKey, sr[i])
  ELSE found

\* the loop of rateForDate from position i on, with found as it stands
RECURSIVE rateScan(_, _, _, _)
rateScan(sr, i, dateKey, found) ==
  IF i > Len(sr) THEN found
  ELSE IF StrLeq(sr[i].effectiveFrom, dateKey) THEN rateScan(sr, i + 1, dateKey, sr[i])
  ELSE found

rateForDate(rs, dateKey) == rateScan(sortedRates(rs), 1, dateKey, null)

\* the entries whose date lies in the month that starts at mon
monthEntries(es, mon) ==
  LET start == startOfMonth(mon)
      end == endOfMonth(mon)
      keep == {i \in 1..Len(es) :
                 LET d == parseKey(es[i].date) IN DateLeq(start, d) /\ DateLeq(d, end)}
      F[i \in 0..Len(es)] ==
        IF i = 0 THEN <<>> ELSE IF i \in keep THEN Append(F[i - 1], es[i]) ELSE F[i - 1]
  IN F[Len(es)]

\* the record addEntry builds from the draft
cleanEntry(draft) == [date |-> draft.date, type |-> draft.type, kg |-> Number(draft.kg)]

\* addEntryAccepts without the rate check
addEntryAcceptsUncovered(rs, draft) ==
  LET clean == cleanEntry(draft)
  IN ~(clean.date = <<>> \/ isNaN(clean.kg) \/ LeqZero(clean.kg))

\* addEntry gets past its validation and its rate check
addEntryAccepts(rs, draft) ==
  LET clean == cleanEntry(draft)
  IN /\ ~(clean.date = <<>> \/ isNaN(clean.kg) \/ LeqZero(clean.kg))
     /\ rateForDate(rs, clean.date) # null

\* the record addRate builds from the draft
cleanRate(draft) ==
  [effectiveFrom |-> draft.effectiveFrom, cow |-> Number(draft.cow),
   buffalo |-> Number(draft.buffalo)]

\* addRateAccepts with < for <= in the check against the latest rate
addRateAcceptsSameDay(rs, draft, tk) ==
  LET clean == cleanRate(draft)
  IN /\ ~(\/ clean.effectiveFrom = <<>>
          \/ isNaN(clean.cow) \/ isNaN(clean.buffalo)
          \/ LeqZero(clean.cow) \/ LeqZero(clean.buffalo))
     /\ ~(HasLatestRate(rs) /\ StrLess(clean.effectiveFrom, latestRate(rs).effectiveFrom))

\* addRateAccepts without the check of the buffalo rate's sign
addRateAcceptsAnyBuffalo(rs, draft, tk) ==
  LET clean == cleanRate(draft)
  IN /\ ~(\/ clean.effectiveFrom = <<>>
          \/ isNaN(clean.cow) \/ isNaN(clean.buffalo)
          \/ LeqZero(clean.cow))
     /\ ~(HasLatestRate(rs) /\ StrLeq(clean.effectiveFrom, latestRate(rs).effectiveFrom))

\* addRate gets past its validation and its check against the latest rate; the
\* check against today's date (tk) is commented out in the source
addRateAccepts(rs, draft, tk) ==
  LET clean == cleanRate(draft)
  IN /\ ~(\/ clean.effectiveFrom = <<>>
          \/ isNaN(clean.cow) \/ isNaN(clean.buffalo)
          \/ LeqZero(clean.cow) \/ LeqZero(clean.buffalo))
     /\ ~(HasLatestRate(rs) /\ StrLeq(clean.effectiveFrom, latestRate(rs).effectiveFrom))

\* totals, after the first i entries
RECURSIVE totalsLoop(_, _, _)
totalsLoop(es, rs, i) ==
  IF i = 0 THEN [cowKg |-> Num(0), bufKg |-> Num(0), cost |-> Num(0)]
  ELSE LET acc == totalsLoop(es, rs, i - 1)
           e == es[i]
           r == rateForDate(rs, e.date)
       IN IF r = null THEN acc
          ELSE LET perKg == IF e.type = "cow" THEN r.cow ELSE r.buffalo
               IN [cowKg |-> IF e.type = "cow" THEN Add(acc.cowKg, e.kg) ELSE acc.cowKg,
                   bufKg |-> IF e.type = "cow" THEN acc.bufKg ELSE Add(acc.bufKg, e.kg),
                   cost |-> Add(acc.cost, Mul(perKg, e.kg))]

totals(es, rs) ==
  LET t == totalsLoop(es, rs, Len(es))
  IN [cowKg |-> t.cowKg, bufKg |-> t.bufKg, kg |-> Add(t.cowKg, t.bufKg), cost |-> t.cost]

\* x ?? 0
OrZero(x) == IF x = null THEN Num(0) ELSE x

\* dayMap, after the first i of the month's entries: a Map from date key to
\* {cowKg, bufKg, cost}
RECURSIVE dayMapLoop(_, _, _)
dayMapLoop(mes, rs, i) ==
  IF i = 0 THEN [key \in {} |-> 0]
  ELSE LET map == dayMapLoop(mes, rs, i - 1)
           e == mes[i]
           r == rateForDate(rs, e.date)
           perKg == IF r = null THEN Num(0)
                    ELSE IF e.type = "cow" THEN OrZero(r.cow) ELSE OrZero(r.buffalo)
           obj == IF e.date \in DOMAIN map THEN map[e.date]
                  ELSE [cowKg |-> Num(0), bufKg |-> Num(0), cost |-> Num(0)]
           new == [cowKg |-> IF e.type = "cow" THEN Add(obj.cowKg, e.kg) ELSE obj.cowKg,
                   bufKg |-> IF e.type = "cow" THEN obj.bufKg ELSE Add(obj.bufKg, e.kg),
                   cost |-> Add(obj.cost, Mul(perKg, e.kg))]
       IN [key \in DOMAIN map \cup {e.date} |-> IF key = e.date THEN new ELSE map[key]]

dayMap(mes, rs) == dayMapLoop(mes, rs, Len(mes))

(***************************************************************************)
(* Inputs: the days the model knows, the drafts the dialogs can hand to    *)
(* addRate and addEntry, and the texts a store can hold at startup.        *)
(***************************************************************************)
Dates == {Day(2023, 12, 31), Day(2024, 1, 1), Day(2024, 1, 31)}

DateKeys == {toKey(d) : d \in Dates}

Months == {startOfMonth(d) : d \in Dates}

MILK_TYPES == {"cow", "buffalo"}

\* texts of the two rate fields: three that pass validation (the third converts
\* to Infinity) and four that do not
RateTexts ==
  { <<<<"3">>, <<"5">>>>, <<<<"4">>, <<"6">>>>, <<<<"1", "e", "9", "9", "9">>, <<"5">>>>,
    <<<<>>, <<"5">>>>, <<<<"a", "b", "c">>, <<"5">>>>, <<<<"3">>, <<"-", "1">>>>,
    <<<<"3">>, <<"0">>>> }

RateDrafts ==
  {[effectiveFrom |-> k, cow |-> t[1], buffalo |-> t[2]] :
     k \in DateKeys \cup {<<>>}, t \in RateTexts}

KgTexts == { <<"2">>, <<"1", "e", "9", "9", "9">>, <<>>, <<"a", "b", "c">>, <<"-", "1">>, <<"0">> }

EntryDrafts ==
  {[date |-> k, type |-> ty, kg |-> t] : k \in DateKeys \cup {<<>>}, ty \in MILK_TYPES, t \in KgTexts}

\* records a store written by another run or another hand can hold
StoredRates == {[effectiveFrom |-> k, cow |-> Num(3), buffalo |-> Num(5)] : k \in DateKeys}

StoredEntries == {[date |-> k, type |-> ty, kg |-> Num(2)] : k \in DateKeys, ty \in MILK_TYPES}

\* what a key of the store can hold at startup besides the JSON of a list:
\* nothing, the empty string, text that is not JSON, JSON that is no array
NoListTexts ==
  {[kind |-> kd, items |-> <<>>] : kd \in {"absent", "empty", "garbage", "null", "number", "object"}}

\* the texts that hold n records of S
StoredTexts(S, n) ==
  {Array(q) : q \in [1..n -> S]} \cup (IF n = 0 THEN NoListTexts ELSE {})

Stores ==
  UNION {{[entries |-> e, rates |-> r] :
            e \in StoredTexts(StoredEntries, n[1]), r \in StoredTexts(StoredRates, n[2])} :
           n \in {m \in (0..MaxRecords) \X (0..MaxRecords) : m[1] + m[2] <= MaxRecords}}

EmptyStore == [key \in DOMAIN LS_KEYS |-> [kind |-> "absent", items |-> <<>>]]

(***************************************************************************)
(* The App.                                                                *)
(***************************************************************************)
todayKey == toKey(today)

\* the first render goes through: spreading rates and filtering entries throw
\* a TypeError unless both are arrays
Renders(es, rs) == IsArray(es) /\ IsArray(rs)

Mounted == Renders(entries, rates)

Size == Len(entries.items) + Len(rates.items)

\* the App mounted on store st on day td: both lists loaded and, once the first
\* render is through, both save effects run.  The month the calendar shows is a
\* parameter of monthEntries and dayMap here, not a variable.
Start(st, td) ==
  LET es == loadLS(st, "entries", Array(<<>>))
      rs == loadLS(st, "rates", Array(<<>>))
  IN /\ entries = es
     /\ rates = rs
     /\ today = td
     /\ store = IF Renders(es, rs) THEN saveLS(saveLS(st, "entries", es), "rates", rs) ELSE st

\* no call of daysMatrix has been made
NoCalendar == activeDate = InvalidDate /\ matrix = <<>>

Init == NoCalendar /\ \E td \in Dates : Start(EmptyStore, td)

InitStored == NoCalendar /\ \E st \in Stores, td \in Dates : Start(st, td)

\* addRate(draft), with the re-render and the save effect that follow setRates
addRate(draft) ==
  /\ UNCHANGED <<entries, today, activeDate, matrix>>
  /\ IF addRateAccepts(rates.items, draft, todayKey)
     THEN /\ rates' = Array(Append(rates.items, cleanRate(draft)))
          /\ store' = saveLS(store, "rates", rates')
     ELSE UNCHANGED <<rates, store>>

\* addEntry(draft), with the re-render and the save effect that follow setEntries
addEntry(draft) ==
  /\ UNCHANGED <<rates, today, activeDate, matrix>>
  /\ IF addEntryAccepts(rates.items, draft)
     THEN /\ entries' = Array(Append(entries.items, cleanEntry(draft)))
          /\ store' = saveLS(store, "entries", entries')
     ELSE UNCHANGED <<entries, store>>

\* "Save Rates" is clicked with some draft in the dialog
AddRate ==
  /\ Mounted
  /\ Size < MaxRecords
  /\ \E draft \in RateDrafts : addRate(draft)

\* "Save Entry" is clicked with some draft in the dialog
AddEntry ==
  /\ Mounted
  /\ Size < MaxRecords
  /\ \E draft \in EntryDrafts : addEntry(draft)

\* a day ends
Tick ==
  /\ today' \in {d \in Dates : d # today /\ DateLeq(today, d)}
  /\ UNCHANGED <<entries, rates, store, activeDate, matrix>>

\* the page is loaded again
Reload ==
  /\ entries' = loadLS(store, "entries", Array(<<>>))
  /\ rates' = loadLS(store, "rates", Array(<<>>))
  /\ store' = IF Renders(entries', rates')
              THEN saveLS(saveLS(store, "entries", entries'), "rates", rates')
              ELSE store
  /\ UNCHANGED <<today, activeDate, matrix>>

Next == AddRate \/ AddEntry \/ Tick \/ Reload

Spec == Init /\ [][Next]_vars

SpecStored == InitStored /\ [][Next]_vars

(***************************************************************************)
(* The calendar grid: daysMatrix called with the days of a range of        *)
(* months.                                                                 *)
(***************************************************************************)
\* the Dates daysMatrix is called with: the 1st, as the App passes it, and two
\* other days of every month of the range
CalendarDates ==
  {Day(y, m, d) : y \in 2000..(2000 + CalendarYears - 1), m \in 1..12, d \in {1, 15, 28}}

InitCalendar ==
  /\ \E td \in {Day(2023, 12, 31)} : Start(EmptyStore, td)
  /\ activeDate \in CalendarDates
  /\ matrix = <<>>

\* the Calendar renders: daysMatrix is called with the Date
CallDaysMatrix ==
  /\ matrix = <<>>
  /\ matrix' = daysMatrix(activeDate)
  /\ UNCHANGED <<entries, rates, store, today, activeDate>>

NextCalendar == CallDaysMatrix

SpecCalendar == InitCalendar /\ [][NextCalendar]_vars

(***************************************************************************)
(* Properties.  Dates are compared as calendar days (parseKey, DateLeq),   *)
(* the code compares their keys as strings.                                *)
(***************************************************************************)
\* a day that is no rate's and no entry's, between two that are
ProbeKeys == {toKey(Day(2024, 1, 15))}

\* the calendar day of every date key of the model (the missing date has none)
DayOfKey == [k \in DateKeys \cup ProbeKeys \cup {<<>>} |-> parseKey(k)]

\* the calendar day a is on or before the calendar day b, for date keys
OnOrBefore(a, b) == DateLeq(DayOfKey[a], DayOfKey[b])

Before(a, b) == OnOrBefore(a, b) /\ DayOfKey[a] # DayOfKey[b]

\* a rate draft that fails no validation of its own fields
WellFormedRate(draft) ==
  /\ draft.effectiveFrom # <<>>
  /\ GtZero(Number(draft.cow)) /\ GtZero(Number(draft.buffalo))

WellFormedRateDrafts == {draft \in RateDrafts : WellFormedRate(draft)}

\* C1: from an empty rate list, the stored rates have strictly increasing
\* effectiveFrom in insertion order, the latest rate is the last one stored and
\* has the greatest effectiveFrom of all, and addRate rejects every draft, however
\* well-formed, whose effectiveFrom is on or before the latest rate's.
RatesStrictlyIncreasing ==
  LET rs == rates.items
  IN /\ \A i, j \in 1..Len(rs) : i < j => Before(rs[i].effectiveFrom, rs[j].effectiveFrom)
     /\ rs # <<>> =>
          /\ latestRate(rs) = rs[Len(rs)]
          /\ \A i \in 1..Len(rs) : OnOrBefore(rs[i].effectiveFrom, latestRate(rs).effectiveFrom)
          /\ \A draft \in WellFormedRateDrafts :
               OnOrBefore(draft.effectiveFrom, latestRate(rs).effectiveFrom)
                 => ~addRateAccepts(rs, draft, todayKey)

\* two rates are stored and a well-formed draft dated on the latest rate's day is at hand
RatesStrictlyIncreasingWitness ==
  /\ Len(rates.items) >= 2
  /\ \E draft \in WellFormedRateDrafts :
       draft.effectiveFrom = latestRate(rates.items).effectiveFrom

\* the positions of the rates in effect on or before the day of key D
Covering(rs, D) == {i \in 1..Len(rs) : OnOrBefore(rs[i].effectiveFrom, D)}

\* C2: for every date key D and every rate list, sorted or not, rateForDate(D) is
\* a record of the list whose effectiveFrom is the greatest that is on or before
\* D (a record dated D itself counts), and it is null exactly when no record is
\* dated on or before D.
RateForDateIsLatestCovering ==
  Mounted =>
    \A D \in DateKeys \cup ProbeKeys :
      LET rs == rates.items
          r == rateForDate(rs, D)
      IN IF Covering(rs, D) = {} THEN r = null
         ELSE /\ \E i \in Covering(rs, D) : rs[i] = r
              /\ \A i \in Covering(rs, D) : OnOrBefore(rs[i].effectiveFrom, r.effectiveFrom)

\* a rate list that is not in date order, with a date that resolves to the record
\* dated that very day and a date before every record
RateForDateIsLatestCoveringWitness ==
  /\ Mounted
  /\ Len(rates.items) >= 2
  /\ Before(rates.items[2].effectiveFrom, rates.items[1].effectiveFrom)
  /\ \E D \in DateKeys :
       /\ rateForDate(rates.items, D) # null
       /\ rateForDate(rates.items, D).effectiveFrom = D
       /\ \E i \in 1..Len(rates.items) : Before(D, rates.items[i].effectiveFrom)
  /\ \E D \in DateKeys : rateForDate(rates.items, D) = null

\* C3: from empty lists, every entry of the ledger has a rate whose effectiveFrom
\* is on or before the entry's date.
EveryEntryHasRate ==
  \A i \in 1..Len(entries.items) : Covering(rates.items, entries.items[i].date) # {}

\* an entry is in the ledger while some day of the model has no rate in effect
EveryEntryHasRateWitness ==
  /\ entries.items # <<>>
  /\ \E D \in DateKeys : Covering(rates.items, D) = {}

\* the price per kg the aggregations use for entry e under the rates rs
UnitPrice(e, rs) ==
  LET r == rateForDate(rs, e.date)
  IN IF r = null THEN null ELSE IF e.type = "cow" THEN r.cow ELSE r.buffalo

\* the step appends one record to the rate list
RateAdded ==
  /\ Len(rates'.items) = Len(rates.items) + 1
  /\ SubSeq(rates'.items, 1, Len(rates.items)) = rates.items

\* the step appends one record to the entry list
EntryAdded ==
  /\ Len(entries'.items) = Len(entries.items) + 1
  /\ SubSeq(entries'.items, 1, Len(entries.items)) = entries.items

\* C4: an addRate that succeeds changes the unit price of no entry that is
\* already in the ledger.
PastEntriesKeepOldRates ==
  [][(AddRate /\ RateAdded) =>
       \A i \in 1..Len(entries.items) :
         UnitPrice(entries.items[i], rates'.items) = UnitPrice(entries.items[i], rates.items)]_vars

\* C5: every rate addRate accepts has an effectiveFrom that is today or later.
RatesAreFutureOnly ==
  [][(AddRate /\ RateAdded) =>
       ~Before(rates'.items[Len(rates'.items)].effectiveFrom, todayKey)]_vars

\* an entry draft that fails no validation of its own fields
WellFormedEntryDrafts ==
  {draft \in EntryDrafts : draft.date # <<>> /\ GtZero(Number(draft.kg))}

\* a rate draft the claim lists as rejected: a missing date, a rate that is not a
\* positive number, or an effectiveFrom that is not after every stored rate's
BadRateDraft(draft) ==
  \/ draft \notin WellFormedRateDrafts
  \/ \E i \in 1..Len(rates.items) : OnOrBefore(draft.effectiveFrom, rates.items[i].effectiveFrom)

\* an entry draft the claim lists as rejected: a missing date, a weight that is
\* not a positive number, or a date no rate covers
BadEntryDraft(draft) ==
  \/ draft \notin WellFormedEntryDrafts
  \/ Covering(rates.items, draft.date) = {}

\* C6: an addRate or addEntry either appends exactly one record to its own list
\* and leaves the other list alone, or changes neither list; a call with a draft
\* that is to be rejected changes neither.
InsertIsAllOrNothing ==
  [][\/ UNCHANGED <<entries, rates>>
     \/ /\ (RateAdded /\ UNCHANGED entries) \/ ~AddRate
        /\ (EntryAdded /\ UNCHANGED rates) \/ ~AddEntry
        /\ \A draft \in RateDrafts : ~(Mounted /\ BadRateDraft(draft) /\ addRate(draft))
        /\ \A draft \in EntryDrafts : ~(Mounted /\ BadEntryDraft(draft) /\ addEntry(draft))]_vars

\* both lists hold a record and drafts of each rejected kind are at hand: a rate
\* dated on the latest rate's day and an entry dated before every rate
InsertIsAllOrNothingWitness ==
  /\ rates.items # <<>> /\ entries.items # <<>>
  /\ Size < MaxRecords
  /\ \E draft \in WellFormedRateDrafts : BadRateDraft(draft)
  /\ \E draft \in WellFormedEntryDrafts : BadEntryDraft(draft)

\* the sum of kg over the first i entries that are of type ty
RECURSIVE SumKg(_, _, _)
SumKg(es, ty, i) ==
  IF i = 0 THEN Num(0)
  ELSE IF es[i].type = ty THEN Add(SumKg(es, ty, i - 1), es[i].kg) ELSE SumKg(es, ty, i - 1)

\* the sum of price * kg over the first i entries that have a rate
RECURSIVE SumCost(_, _, _)
SumCost(es, rs, i) ==
  IF i = 0 THEN Num(0)
  ELSE IF rateForDate(rs, es[i].date) = null THEN SumCost(es, rs, i - 1)
  ELSE Add(SumCost(es, rs, i - 1), Mul(UnitPrice(es[i], rs), es[i].kg))

\* C7: totals.cowKg and totals.bufKg are the sums of kg over all entries of the
\* type, with or without a rate, and totals.cost is the sum of rate * kg over the
\* entries that have a rate.
TotalsCountEveryKg ==
  Mounted =>
    LET es == entries.items
        t == totals(es, rates.items)
    IN /\ t.cowKg = SumKg(es, "cow", Len(es))
       /\ t.bufKg = SumKg(es, "buffalo", Len(es))
       /\ t.cost = SumCost(es, rates.items, Len(es))

\* the sum of field f over the buckets of the Map map
RECURSIVE SumBuckets(_, _)
SumBuckets(map, f) ==
  IF DOMAIN map = {} THEN Num(0)
  ELSE LET key == CHOOSE x \in DOMAIN map : TRUE
       IN Add(map[key][f], SumBuckets([x \in DOMAIN map \ {key} |-> map[x]], f))

\* the sum of field f over the buckets of the dayMap of every month in ms
RECURSIVE SumMonths(_, _, _, _)
SumMonths(ms, es, rs, f) ==
  IF ms = {} THEN Num(0)
  ELSE LET mon == CHOOSE x \in ms : TRUE
       IN Add(SumBuckets(dayMap(monthEntries(es, mon), rs), f),
              SumMonths(ms \ {mon}, es, rs, f))

\* C8: for every ledger and rate list, totals.cost, totals.cowKg and
\* totals.bufKg are the sums of the cost, cowKg and bufKg of the dayMap buckets of
\* all months.
TotalsEqualDaySums ==
  Mounted =>
    LET es == entries.items
        rs == rates.items
        t == totals(es, rs)
    IN /\ t.cost = SumMonths(Months, es, rs, "cost")
       /\ t.cowKg = SumMonths(Months, es, rs, "cowKg")
       /\ t.bufKg = SumMonths(Months, es, rs, "bufKg")

\* C9: what the store holds under each key loads back as the list the App holds.
StoreMirrorsState ==
  Mounted =>
    /\ loadLS(store, "rates", Array(<<>>)) = rates
    /\ loadLS(store, "entries", Array(<<>>)) = entries

\* C10: whatever the store holds at startup, both loaded collections are lists.
LoadedCollectionsAreLists == IsArray(entries) /\ IsArray(rates)

\* x is a positive finite number
PositiveFinite(x) == x.k = "num" /\ x.v > 0

\* the drafts with a numeric field that converts to NaN, zero, a negative number
\* or an infinite value
NonPositiveFiniteRateDrafts ==
  {draft \in RateDrafts :
     ~(PositiveFinite(Number(draft.cow)) /\ PositiveFinite(Number(draft.buffalo)))}

NonPositiveFiniteEntryDrafts == {draft \in EntryDrafts : ~PositiveFinite(Number(draft.kg))}

\* C11: from empty lists, every stored rate has an effectiveFrom and cow and
\* buffalo rates that are positive finite numbers, every stored entry has a date
\* and a kg that is a positive finite number, and addRate and addEntry reject
\* every draft with a numeric field that converts to NaN, zero, a negative number
\* or an infinite value.
StoredNumbersArePositiveFinite ==
  /\ \A i \in 1..Len(rates.items) :
       /\ rates.items[i].effectiveFrom # <<>>
       /\ PositiveFinite(rates.items[i].cow) /\ PositiveFinite(rates.items[i].buffalo)
  /\ \A i \in 1..Len(entries.items) :
       entries.items[i].date # <<>> /\ PositiveFinite(entries.items[i].kg)
  /\ \A draft \in NonPositiveFiniteRateDrafts : ~addRateAccepts(rates.items, draft, todayKey)
  /\ \A draft \in NonPositiveFiniteEntryDrafts : ~addEntryAccepts(rates.items, draft)


\* the calendar day after date
NextDayOf(date) ==
  IF date.d < DaysIn(date.y, date.m) THEN Day(date.y, date.m, date.d + 1)
  ELSE IF date.m < 12 THEN Day(date.y, date.m + 1, 1)
  ELSE Day(date.y + 1, 1, 1)

\* date is a Monday (Zeller's congruence: 0 is Saturday, 2 is Monday)
IsMonday(date) ==
  LET m == IF date.m < 3 THEN date.m + 12 ELSE date.m
      y == IF date.m < 3 THEN date.y - 1 ELSE date.y
      K == y % 100
      J == y \div 100
  IN (date.d + ((13 * (m + 1)) \div 5) + K + (K \div 4) + (J \div 4) + 5 * J) % 7 = 2

\* the cells of the matrix, row after row
MatrixCell(k) == matrix[((k - 1) \div 7) + 1][((k - 1) % 7) + 1]

InActiveMonth(date) == date.y = activeDate.y /\ date.m = activeDate.m

\* C12: for every month, daysMatrix returns rows of exactly 7 consecutive days,
\* the first cell is the Monday on or before the 1st of the month, every day of
\* the month appears exactly once, the last row contains a day of the month and
\* there are between 4 and 6 rows.
MatrixIsMondayFirstMonthGrid ==
  matrix # <<>> =>
    /\ Len(matrix) \in 4..6
    /\ \A r \in 1..Len(matrix) : Len(matrix[r]) = 7
    /\ \A k \in 1..(7 * Len(matrix) - 1) : MatrixCell(k + 1) = NextDayOf(MatrixCell(k))
    /\ IsMonday(matrix[1][1])
    /\ \E c \in 1..7 : matrix[1][c] = Day(activeDate.y, activeDate.m, 1)
    /\ \A d \in 1..DaysIn(activeDate.y, activeDate.m) :
         Cardinality({k \in 1..(7 * Len(matrix)) :
                        MatrixCell(k) = Day(activeDate.y, activeDate.m, d)}) = 1
    /\ \E c \in 1..7 : InActiveMonth(matrix[Len(matrix)][c])

\* a February of 28 days that starts on a Monday fills exactly 4 rows
MatrixIsMondayFirstMonthGridWitness ==
  /\ Len(matrix) = 4
  /\ matrix[1][1] = Day(activeDate.y, activeDate.m, 1)
  /\ matrix[4][7] = Day(activeDate.y, activeDate.m, 28)

====
